---- MODULE Spec2Model ----
(***************************************************************************)
(* Model of the LASCSS IntelliSense class generator and resolver.          *)
(*                                                                         *)
(* Strings are sequences of one-character strings, so that the regular     *)
(* expressions, trim, startsWith, replace and number formatting of the     *)
(* source are computed character by character.  A token table (a JS object *)
(* built by parseMetaVars) is a sequence of <<key, value>> pairs with      *)
(* distinct keys, in insertion order (the order Object.entries yields).    *)
(* The only whitespace character of the input alphabet is the space, and   *)
(* the alphabet has no "$" (String.replace's replacement patterns).        *)
(***************************************************************************)
EXTENDS Integers, Sequences, FiniteSets, TLC

VARIABLES
  rv,             \* a call of resolveVar: its frame and its caller
  sh,             \* a call of calculateShade
  mx,             \* a call of mixColors
  gen,            \* a call of generateClassesWithDetails
  files,          \* the file system: what each node_modules/lascss holds
  workspace,      \* vscode.workspace.workspaceFolders?.[0]
  classCache,     \* the resolver's classCache
  errorShownFor,  \* the resolver's errorShownFor
  shown,          \* the error messages shown so far, in order
  computations,   \* the catalogs computed so far, in order, each with its directory
  lookups,        \* the number of resolveClasses calls made
  last            \* the resolveClasses call that returned last, with its locals

resolverVars ==
  <<files, workspace, classCache, errorShownFor, shown, computations, lookups, last>>
vars == <<rv, sh, mx, gen, resolverVars>>

(***************************************************************************)
(* String helpers (JS String methods used by the source).                  *)
(***************************************************************************)
SetMin(S) == CHOOSE x \in S : \A y \in S : x <= y
SetMax(S) == 0 - SetMin({0 - x : x \in S})

\* s[i], or "" past either end of the string
At(s, i) == IF i \in 1..Len(s) THEN s[i] ELSE ""

\* the characters \s matches
IsSpace(c) == c = " "

\* String.prototype.substring on 1-based inclusive positions, clamped to the string
Sub(s, a, b) ==
  LET lo == IF a < 1 THEN 1 ELSE a
      hi == IF b > Len(s) THEN Len(s) ELSE b
  IN  IF lo > hi THEN <<>> ELSE [k \in 1..(hi - lo + 1) |-> s[lo + k - 1]]

\* String.prototype.trim
Trim(s) ==
  LET keep == {i \in 1..Len(s) : ~IsSpace(s[i])}
  IN  IF keep = {} THEN <<>> ELSE Sub(s, SetMin(keep), SetMax(keep))

\* String.prototype.startsWith
StartsWith(s, p) == Sub(s, 1, Len(p)) = p

\* the index after the longest run of characters from position i on that satisfy Ok
RunEnd(s, i, Ok(_)) ==
  LET stop == {j \in i..Len(s) : ~Ok(s[j])}
  IN  IF stop = {} THEN (IF i > Len(s) THEN i ELSE Len(s) + 1) ELSE SetMin(stop)

SkipWs(s, i) == RunEnd(s, i, IsSpace)

\* the positions a sequence of greedy runs ends at: run k starts runs[k][1]
\* characters after run k - 1 ended (the first at i) and takes the characters
\* of class runs[k][2]
RunEnds(s, i, runs, In(_, _)) ==
  LET end[k \in 0..Len(runs)] ==
        IF k = 0 THEN i
        ELSE RunEnd(s, end[k - 1] + runs[k][1], LAMBDA c : In(runs[k][2], c))
  IN  [k \in 1..Len(runs) |-> end[k]]

(***************************************************************************)
(* resolveVar: var(--name, fallback) resolution against the token table.   *)
(***************************************************************************)
\* depth > 5 stops the recursion
MaxDepth == 5

\* what a throwing call is modelled as (a TypeError leaving resolveVar)
Raised == <<"TypeError">>

\* meta is a plain object: a name that is no own key is looked up on
\* Object.prototype.  valueOf stands for the inherited methods that throw when
\* String.replace calls them as its replacer with this = undefined.
ValueOfName == <<"v", "a", "l", "u", "e", "O", "f">>
InheritedThrowing == {ValueOfName}

HasKey(meta, k) == \E i \in 1..Len(meta) : meta[i][1] = k
Lookup(meta, k) == meta[CHOOSE i \in 1..Len(meta) : meta[i][1] = k][2]

VarOpen == <<"v", "a", "r", "(">>

\* [^) ,]
IsNameChar(c) == c \notin {")", " ", ","}
\* [^)]
IsNotClose(c) == c # ")"

NoMatch == [ok |-> FALSE, start |-> 0, end |-> 0, name |-> <<>>, hasFb |-> FALSE, fb |-> <<>>]

\* the character classes of varRegex
VarClass(class, c) ==
  CASE class = "space" -> IsSpace(c)
    [] class = "name" -> IsNameChar(c)
    [] class = "notClose" -> IsNotClose(c)

\* after "var(": \s*, then "--" and [^) ,]+, \s*, then "," and \s*, [^)]+
VarRuns == << <<4, "space">>, <<2, "name">>, <<0, "space">>, <<1, "space">>, <<0, "notClose">> >>

\* the match at position i, from the positions e its runs end at
VarFields(s, i, e) ==
  LET b  == e[1]
      n0 == e[1] + 2
      n1 == e[2]
      c  == e[3]
      d  == e[4]
      p  == e[5]
  IN  IF ~(At(s, b) = "-" /\ At(s, b + 1) = "-" /\ n1 > n0) THEN NoMatch
      ELSE IF At(s, c) = "," /\ d <= Len(s) /\ s[d] # ")" /\ p <= Len(s)
        \* the fallback runs from the first non-space after the comma to the next ")"
        THEN [ok |-> TRUE, start |-> i, end |-> p, name |-> Sub(s, n0, n1 - 1),
              hasFb |-> TRUE, fb |-> Sub(s, d, p - 1)]
      ELSE IF At(s, c) = "," /\ At(s, d) = ")" /\ d > c + 1
        \* only spaces after the comma: \s* gives one back to [^)]+
        THEN [ok |-> TRUE, start |-> i, end |-> d, name |-> Sub(s, n0, n1 - 1),
              hasFb |-> TRUE, fb |-> <<" ">>]
      ELSE IF At(s, c) = ")"
        THEN [ok |-> TRUE, start |-> i, end |-> c, name |-> Sub(s, n0, n1 - 1),
              hasFb |-> FALSE, fb |-> <<>>]
      ELSE NoMatch

\* varRegex = /var\(\s*--([^) ,]+)(?:\s*,\s*([^)]+))?\s*\)/ anchored at position i
VarMatchAt(s, i) ==
  IF Sub(s, i, i + 3) # VarOpen THEN NoMatch
  ELSE VarFields(s, i, RunEnds(s, i, VarRuns, VarClass))

\* the leftmost match among the positions where "var(" stands
VarMatchFrom(s, opens) ==
  IF \E i \in opens : VarMatchAt(s, i).ok
  THEN VarMatchAt(s, CHOOSE i \in opens :
                      /\ VarMatchAt(s, i).ok
                      /\ \A j \in opens : j < i => ~VarMatchAt(s, j).ok)
  ELSE NoMatch

\* value.match(varRegex): the leftmost match
VarMatch(s) == VarMatchFrom(s, {i \in 1..Len(s) : Sub(s, i, i + 3) = VarOpen})

\* meta[varName] ?? fallback ?? value
Resolved(value, meta, m) ==
  IF HasKey(meta, m.name) THEN Lookup(meta, m.name)
  ELSE IF m.hasFb THEN m.fb
  ELSE value

\* meta[varName] is an inherited method whose call as a replacer throws
ReplacerThrows(meta, m) == ~HasKey(meta, m.name) /\ m.name \in InheritedThrowing

\* value.replace(varRegex, resolved): the first match is replaced
Replaced(value, meta, m) ==
  Sub(value, 1, m.start - 1) \o Resolved(value, meta, m) \o Sub(value, m.end + 1, Len(value))

RECURSIVE resolveVar(_, _, _)
\* the call after value.match(varRegex) gave m
ResolveMatch(value, meta, depth, m) ==
  IF ~m.ok THEN Trim(value)
  ELSE IF ReplacerThrows(meta, m) THEN Raised
  ELSE resolveVar(Replaced(value, meta, m), meta, depth + 1)

resolveVar(value, meta, depth) ==
  IF value = <<>> \/ depth > MaxDepth THEN value
  ELSE ResolveMatch(value, meta, depth, VarMatch(value))

(***************************************************************************)
(* Colour model: colorToRgb, hexToRgb, mixColors, rgbToHex.  The numbers   *)
(* are JS doubles, NaN or non-negative (the patterns admit no sign).       *)
(***************************************************************************)
DecDigits == <<"0", "1", "2", "3", "4", "5", "6", "7", "8", "9">>
HexLower == DecDigits \o <<"a", "b", "c", "d", "e", "f">>
HexUpper == DecDigits \o <<"A", "B", "C", "D", "E", "F">>

IsDigit(c) == \E i \in 1..10 : DecDigits[i] = c
IsHexDigit(c) == \E i \in 1..16 : HexLower[i] = c \/ HexUpper[i] = c
HexVal(c) == (CHOOSE i \in 1..16 : HexLower[i] = c \/ HexUpper[i] = c) - 1
DigitVal(c) == (CHOOSE i \in 1..10 : DecDigits[i] = c) - 1
\* [0-9.] and [\d.]
IsNumChar(c) == IsDigit(c) \/ c = "."
\* [,\s]
IsSepChar(c) == c = "," \/ IsSpace(c)

RECURSIVE Pow(_, _)
Pow(b, e) == IF e = 0 THEN 1 ELSE b * Pow(b, e - 1)

\* the digits of s read in the given base (every character a digit of it)
RECURSIVE DigitsValue(_, _)
DigitsValue(s, base) ==
  IF s = <<>> THEN 0
  ELSE DigitsValue(Sub(s, 1, Len(s) - 1), base) * base + HexVal(s[Len(s)])

(***************************************************************************)
(* IEEE 754 double arithmetic, as far as the source uses it: the values    *)
(* are NaN or m * 2^e with m a non-negative integer below 2^53 (held as    *)
(* little-endian 15-bit limbs, <<>> for 0), and every operation rounds     *)
(* its exact result to 53 bits, ties to even.                              *)
(***************************************************************************)
LimbBits == 15
LimbBase == Pow(2, LimbBits)
Mantissa == 53

RECURSIVE BNorm(_)
BNorm(a) == IF a # <<>> /\ a[Len(a)] = 0 THEN BNorm(Sub(a, 1, Len(a) - 1)) ELSE a

RECURSIVE BFromInt(_)
BFromInt(n) == IF n = 0 THEN <<>> ELSE <<n % LimbBase>> \o BFromInt(n \div LimbBase)

RECURSIVE BToInt(_)
BToInt(a) == IF a = <<>> THEN 0 ELSE a[1] + LimbBase * BToInt(Tail(a))

Limb(a, i) == IF i \in 1..Len(a) THEN a[i] ELSE 0
Zeros(n) == [i \in 1..n |-> 0]

RECURSIVE BAddC(_, _, _, _)
BAddC(a, b, i, c) ==
  IF i > Len(a) /\ i > Len(b) THEN (IF c = 0 THEN <<>> ELSE <<c>>)
  ELSE LET t == Limb(a, i) + Limb(b, i) + c
       IN  <<t % LimbBase>> \o BAddC(a, b, i + 1, t \div LimbBase)
BAdd(a, b) == BAddC(a, b, 1, 0)

\* a - b for a >= b
RECURSIVE BSubC(_, _, _, _)
BSubC(a, b, i, br) ==
  IF i > Len(a) THEN <<>>
  ELSE LET t == Limb(a, i) - Limb(b, i) - br
       IN  <<IF t < 0 THEN t + LimbBase ELSE t>> \o BSubC(a, b, i + 1, IF t < 0 THEN 1 ELSE 0)
BSub(a, b) == BNorm(BSubC(a, b, 1, 0))

\* a * k for 0 <= k <= LimbBase
RECURSIVE BMulSmallC(_, _, _, _)
BMulSmallC(a, k, i, c) ==
  IF i > Len(a) THEN (IF c = 0 THEN <<>> ELSE <<c>>)
  ELSE LET t == a[i] * k + c
       IN  <<t % LimbBase>> \o BMulSmallC(a, k, i + 1, t \div LimbBase)
BMulSmall(a, k) == BNorm(BMulSmallC(a, k, 1, 0))

RECURSIVE BMulFrom(_, _, _)
BMulFrom(a, b, j) ==
  IF j > Len(b) THEN <<>>
  ELSE BAdd(BNorm(Zeros(j - 1) \o BMulSmall(a, b[j])), BMulFrom(a, b, j + 1))
BMul(a, b) == BMulFrom(a, b, 1)

\* quotient and remainder of a by q, 0 < q < LimbBase, from the top limb down
RECURSIVE BDivStep(_, _, _, _)
BDivStep(a, q, i, r) ==
  IF i = 0 THEN [q |-> <<>>, r |-> r]
  ELSE LET cur == r * LimbBase + a[i]
           rest == BDivStep(a, q, i - 1, cur % q)
       IN  [q |-> rest.q \o <<cur \div q>>, r |-> rest.r]
BDivSmall(a, q) == LET d == BDivStep(a, q, Len(a), 0) IN [q |-> BNorm(d.q), r |-> d.r]

RECURSIVE IntBits(_)
IntBits(n) == IF n = 0 THEN 0 ELSE 1 + IntBits(n \div 2)
BitLen(a) == IF a = <<>> THEN 0 ELSE LimbBits * (Len(a) - 1) + IntBits(a[Len(a)])

BShl(a, s) == BNorm(Zeros(s \div LimbBits) \o BMulSmall(a, Pow(2, s % LimbBits)))
BShr(a, s) == BDivSmall(Sub(a, (s \div LimbBits) + 1, Len(a)), Pow(2, s % LimbBits)).q
BLess(a, b) ==
  \/ Len(a) < Len(b)
  \/ /\ Len(a) = Len(b)
     /\ \E i \in 1..Len(a) : a[i] < b[i] /\ \A j \in (i + 1)..Len(a) : a[j] = b[j]
BOdd(a) == a # <<>> /\ a[1] % 2 = 1
BOne == <<1>>

NaN == [nan |-> TRUE, m |-> <<>>, e |-> 0]
\* the double of a small non-negative integer
Num(n) == [nan |-> FALSE, m |-> BFromInt(n), e |-> 0]

\* n * 2^e rounded to a double
RoundUp(q, r, half) ==
  IF BLess(half, r) \/ (r = half /\ BOdd(q)) THEN BAdd(q, BOne) ELSE q
RoundAt(n, s, q) == RoundUp(q, BSub(n, BShl(q, s)), BShl(BOne, s - 1))
RoundBits(n, e, len) ==
  IF len <= Mantissa THEN [nan |-> FALSE, m |-> n, e |-> e]
  ELSE [nan |-> FALSE, m |-> RoundAt(n, len - Mantissa, BShr(n, len - Mantissa)),
        e |-> e + (len - Mantissa)]
FRound(n, e) == RoundBits(n, e, BitLen(n))

FMul(x, y) ==
  IF x.nan \/ y.nan THEN NaN ELSE FRound(BMul(x.m, y.m), x.e + y.e)

FAdd(x, y) ==
  IF x.nan \/ y.nan THEN NaN
  ELSE IF x.m = <<>> THEN y
  ELSE IF y.m = <<>> THEN x
  ELSE LET e == IF x.e < y.e THEN x.e ELSE y.e
       IN  FRound(BAdd(BShl(x.m, x.e - e), BShl(y.m, y.e - e)), e)

\* x - y for x >= y
FSub(x, y) ==
  IF x.nan \/ y.nan THEN NaN
  ELSE IF y.m = <<>> THEN x
  ELSE LET e == IF x.e < y.e THEN x.e ELSE y.e
       IN  FRound(BSub(BShl(x.m, x.e - e), BShl(y.m, y.e - e)), e)

\* the guard digits of a quotient
QuotientBits == 80

\* x / q for an integer 0 < q < LimbBase; the last bit is the sticky bit
Sticky(d) == BAdd(BShl(d.q, 1), IF d.r # 0 THEN BOne ELSE <<>>)
FDivInt(x, q) ==
  IF x.nan THEN NaN
  ELSE IF x.m = <<>> THEN x
  ELSE FRound(Sticky(BDivSmall(BShl(x.m, QuotientBits), q)), x.e - QuotientBits - 1)

\* a channel after Math.round: NaN or an integer
NaNInt == [nan |-> TRUE, n |-> 0]
\* Math.round(x): the nearest integer, a tie going up
MathRound(x) ==
  IF x.nan THEN NaNInt
  ELSE IF x.e >= 0 THEN [nan |-> FALSE, n |-> BToInt(BShl(x.m, x.e))]
  ELSE [nan |-> FALSE,
        n |-> BToInt(BShr(BAdd(x.m, BShl(BOne, (0 - x.e) - 1)), 0 - x.e))]

\* Number(p) for p matching [0-9.]+ : NaN with two dots or no digit
ToNumber(p) ==
  LET dots == {i \in 1..Len(p) : p[i] = "."}
      digs == SelectSeq(p, IsDigit)
  IN  IF Cardinality(dots) > 1 \/ digs = <<>> THEN NaN
      ELSE IF dots = {} THEN Num(DigitsValue(p, 10))
      ELSE FDivInt(Num(DigitsValue(digs, 10)), Pow(10, Len(p) - SetMin(dots)))

Rgb(r, g, b) == [ok |-> TRUE, r |-> r, g |-> g, b |-> b]
NoRgb == [ok |-> FALSE, r |-> NaN, g |-> NaN, b |-> NaN]

\* optional leading "#"
AfterHash(h) == IF At(h, 1) = "#" THEN Sub(h, 2, Len(h)) ELSE h
AllHex(h) == \A i \in 1..Len(h) : IsHexDigit(h[i])

\* shorthandRegex: exactly three digits are doubled
Doubled(body) ==
  IF Len(body) = 3 /\ AllHex(body)
  THEN <<body[1], body[1], body[2], body[2], body[3], body[3]>>
  ELSE body

\* the second regex of hexToRgb on the digits, and parseInt(.., 16) of each pair
HexPairs(full) ==
  IF Len(full) = 6 /\ AllHex(full)
  THEN Rgb(Num(DigitsValue(Sub(full, 1, 2), 16)),
           Num(DigitsValue(Sub(full, 3, 4), 16)),
           Num(DigitsValue(Sub(full, 5, 6), 16)))
  ELSE NoRgb

hexToRgb(hex) == HexPairs(Doubled(AfterHash(hex)))

\* /rgb\(/i at position i
RgbOpenAt(s, i) ==
  /\ At(s, i) \in {"r", "R"} /\ At(s, i + 1) \in {"g", "G"}
  /\ At(s, i + 2) \in {"b", "B"} /\ At(s, i + 3) = "("

\* three captured number texts, or no match
NoParts == [ok |-> FALSE, parts |-> <<>>]
Parts(a, b, c) == [ok |-> TRUE, parts |-> <<a, b, c>>]

\* the character classes of that pattern
RgbClass(class, c) ==
  CASE class = "space" -> IsSpace(c)
    [] class = "num" -> IsNumChar(c)
    [] class = "sep" -> IsSepChar(c)

\* after "rgb(": \s*, [0-9.]+, [,\s]+, [0-9.]+, [,\s]+, [0-9.]+, \s*
RgbRuns == << <<4, "space">>, <<0, "num">>, <<0, "sep">>, <<0, "num">>, <<0, "sep">>,
              <<0, "num">>, <<0, "space">> >>

\* the captures, from the positions e the runs end at
RgbFields(s, e) ==
  IF e[2] > e[1] /\ e[3] > e[2] /\ e[4] > e[3] /\ e[5] > e[4] /\ e[6] > e[5]
     /\ At(s, e[7]) = ")"
  THEN Parts(Sub(s, e[1], e[2] - 1), Sub(s, e[3], e[4] - 1), Sub(s, e[5], e[6] - 1))
  ELSE NoParts

\* /rgb\(\s*([0-9.]+)[,\s]+([0-9.]+)[,\s]+([0-9.]+)\s*\)/i anchored at position i:
\* the three captures
RgbFuncAt(s, i) ==
  IF ~RgbOpenAt(s, i) THEN NoParts ELSE RgbFields(s, RunEnds(s, i, RgbRuns, RgbClass))

RgbFuncFrom(value, starts) ==
  IF starts = {} THEN NoParts ELSE RgbFuncAt(value, SetMin(starts))

\* value.match of that regex: the leftmost match
RgbFuncMatch(value) == RgbFuncFrom(value, {i \in 1..Len(value) : RgbFuncAt(value, i).ok})

\* s.split(/\s+/) from position i on (an empty first or last piece is kept)
RECURSIVE SplitSpaces(_, _)
SplitSpaces(s, i) ==
  LET notSpace(c) == ~IsSpace(c)
      j == RunEnd(s, i, notSpace)
      k == RunEnd(s, j, IsSpace)
  IN  IF j > Len(s) THEN <<Sub(s, i, Len(s))>>
      ELSE <<Sub(s, i, j - 1)>> \o SplitSpaces(s, k)

\* value.split("/")[0].trim().split(/\s+/) when it is three texts of [0-9.]+
SpaceParts(value) ==
  LET spaceParts ==
        SplitSpaces(Trim(Sub(value, 1, RunEnd(value, 1, LAMBDA c : c # "/") - 1)), 1)
  IN  IF Len(spaceParts) = 3
         /\ \A i \in 1..3 : spaceParts[i] # <<>>
                            /\ \A j \in 1..Len(spaceParts[i]) : IsNumChar(spaceParts[i][j])
      THEN [ok |-> TRUE, parts |-> spaceParts]
      ELSE NoParts

\* value.match(/[\d.]+/g): the maximal runs of number characters
RECURSIVE NumberRuns(_, _)
NumberRuns(s, i) ==
  LET notNum(c) == ~IsNumChar(c)
      j == RunEnd(s, i, notNum)
      k == RunEnd(s, j, IsNumChar)
  IN  IF j > Len(s) THEN <<>> ELSE <<Sub(s, j, k - 1)>> \o NumberRuns(s, k)

\* the first three of them, when there are three
NumberParts(value) ==
  LET numbers == NumberRuns(value, 1)
  IN  IF Len(numbers) >= 3 THEN [ok |-> TRUE, parts |-> Sub(numbers, 1, 3)] ELSE NoParts

\* { r: Number(p[0]), g: Number(p[1]), b: Number(p[2]) }
Channels(n) == Rgb(n[1], n[2], n[3])
NumberRgb(parts) == Channels([k \in 1..3 |-> ToNumber(parts[k])])

\* the three patterns tried after the hex pattern, in the order of the source
FirstParts(func, spaces, numbers) ==
  IF func.ok THEN func ELSE IF spaces.ok THEN spaces ELSE numbers
PartsRgb(found) == IF found.ok THEN NumberRgb(found.parts) ELSE NoRgb

\* /^#?[0-9a-fA-F]{3,6}$/.test(hex)
IsHexText(body) == Len(body) \in 3..6 /\ AllHex(body)

colorToRgb(value) ==
  IF value = <<>> THEN NoRgb
  ELSE IF IsHexText(AfterHash(Trim(value))) THEN hexToRgb(Trim(value))
  ELSE PartsRgb(FirstParts(RgbFuncMatch(value), SpaceParts(value), NumberParts(value)))

\* Math.round(c1 * (1 - w) + c2 * w)
MixChannel(c1, c2, w) ==
  MathRound(FAdd(FMul(c1, FSub(Num(1), w)), FMul(c2, w)))

\* x << k on 32-bit integers (NaN << k is 0)
ShiftLeft(x, k) ==
  IF x.nan THEN 0
  ELSE LET m == Pow(2, 32 - k)
           q == x.n % m
       IN  IF 2 * q >= m THEN (q - m) * Pow(2, k) ELSE q * Pow(2, k)

\* Number.prototype.toString(16) of a non-negative integer
RECURSIVE ToHex(_)
ToHex(n) == IF n < 16 THEN <<HexLower[n + 1]>> ELSE ToHex(n \div 16) \o <<HexLower[(n % 16) + 1]>>

\* "#" + ((1 << 24) + (r << 16) + (g << 8) + b).toString(16).slice(1)
rgbToHex(r, g, b) ==
  LET sum == Pow(2, 24) + ShiftLeft(r, 16) + ShiftLeft(g, 8) + b.n
      text == IF b.nan THEN <<"N", "a", "N">>
              ELSE IF sum < 0 THEN <<"-">> \o ToHex(0 - sum)
              ELSE ToHex(sum)
  IN  <<"#">> \o Sub(text, 2, Len(text))

\* weight is a double
Channel(c, k) == IF k = 1 THEN c.r ELSE IF k = 2 THEN c.g ELSE c.b
HexOf(mixed) == rgbToHex(mixed[1], mixed[2], mixed[3])
\* c[1] and c[2] are colorToRgb of the two colours
MixRgb(color1, c, w) ==
  IF ~c[1].ok \/ ~c[2].ok THEN color1
  ELSE HexOf([k \in 1..3 |-> MixChannel(Channel(c[1], k), Channel(c[2], k), w)])

mixColors(color1, color2, weight) ==
  MixRgb(color1, [k \in 1..2 |-> colorToRgb(<<color1, color2>>[k])], FDivInt(weight, 100))

(***************************************************************************)
(* calculateShade: the shade of a base colour at a rung.                   *)
(***************************************************************************)
Transparent == <<"t", "r", "a", "n", "s", "p", "a", "r", "e", "n", "t">>
CurrentColor == <<"c", "u", "r", "r", "e", "n", "t", "C", "o", "l", "o", "r">>
White == <<"#", "f", "f", "f", "f", "f", "f">>
Black == <<"#", "0", "0", "0", "0", "0", "0">>

\* const shadeValues = [50, 100, ..., 950]
shadeValues == <<50, 100, 200, 300, 400, 500, 600, 700, 800, 900, 950>>

\* the shade that is returned as the base colour
BaseShade == 500

\* calculateShade without its test for shade 500
\* whitePercent = ((500 - shade) / 500) * 100, blackPercent = ((shade - 500) / 500) * 100
Percent(distance) == FMul(FDivInt(Num(distance), BaseShade), Num(100))

\* the mix with white below 500 and with black above
Mixed(baseColor, shade) ==
  mixColors(baseColor, IF shade < BaseShade THEN White ELSE Black,
            Percent(IF shade < BaseShade THEN BaseShade - shade ELSE shade - BaseShade))

calculateShadeMixes500(baseColor, shade) ==
  IF baseColor = Transparent \/ baseColor = CurrentColor
  THEN baseColor
  ELSE Mixed(baseColor, shade)

calculateShade(baseColor, shade) ==
  IF shade = BaseShade \/ baseColor = Transparent \/ baseColor = CurrentColor
  THEN baseColor
  ELSE Mixed(baseColor, shade)

(***************************************************************************)
(* generateClassesWithDetails.  Objects are sequences of <<key, value>>    *)
(* pairs in insertion order; token keys come from parseMetaVars, so no     *)
(* name holds a ":" or is an integer index or a name of Object.prototype.  *)
(***************************************************************************)
\* obj[k] = v: an existing key keeps its place
Put(obj, k, v) ==
  IF HasKey(obj, k) THEN [i \in 1..Len(obj) |-> IF obj[i][1] = k THEN <<k, v>> ELSE obj[i]]
  ELSE Append(obj, <<k, v>>)

\* obj[k], which may be undefined
Get(obj, k) == IF HasKey(obj, k) THEN [has |-> TRUE, v |-> Lookup(obj, k)]
               ELSE [has |-> FALSE, v |-> <<>>]
Undefined == [has |-> FALSE, v |-> <<>>]
\* a value that is neither undefined nor the empty string
Truthy(o) == o.has /\ o.v # <<>>

Keys(obj) == [i \in 1..Len(obj) |-> obj[i][1]]

RECURSIVE Flatten(_)
Flatten(ss) == IF ss = <<>> THEN <<>> ELSE Head(ss) \o Flatten(Tail(ss))

\* Array.from(new Set(s)): the first occurrence of each element, in order
RECURSIVE Unique(_)
Unique(s) ==
  IF s = <<>> THEN <<>>
  ELSE LET init == Unique(Sub(s, 1, Len(s) - 1))
           x == s[Len(s)]
       IN  IF \E i \in 1..Len(init) : init[i] = x THEN init ELSE Append(init, x)

\* String(n) of a non-negative integer
RECURSIVE Dec(_)
Dec(n) == IF n < 10 THEN <<DecDigits[n + 1]>> ELSE Dec(n \div 10) \o <<DecDigits[(n % 10) + 1]>>

Dash == <<"-">>
Colon == <<":">>
ConfigColorPrefix == <<"l", "a", "s", "-", "c", "o", "n", "f", "i", "g", "-", "c", "o", "l", "o", "r", "-">>
ColorPrefix == <<"l", "a", "s", "-", "c", "o", "l", "o", "r", "-">>
SingleColorPrefix == <<"l", "a", "s", "-", "s", "i", "n", "g", "l", "e", "-", "c", "o", "l", "o", "r", "-">>
VariantPrefix == <<"l", "a", "s", "-", "v", "a", "r", "i", "a", "n", "t", "-">>
BreakpointPrefix == <<"l", "a", "s", "-", "b", "r", "e", "a", "k", "p", "o", "i", "n", "t", "-">>
TrueText == <<"t", "r", "u", "e">>
defaultBreakpoints == << <<"s", "m">>, <<"m", "d">>, <<"l", "g">>, <<"x", "l">>, <<"2", "x", "l">> >>

\* k.replace(prefix, "") for a key that starts with the prefix
StripPrefix(k, prefix) == Sub(k, Len(prefix) + 1, Len(k))

\* the entries whose key starts with the prefix, in order
WithPrefix(parsedMeta, prefix) ==
  SelectSeq(parsedMeta, LAMBDA e : StartsWith(e[1], prefix))

\* the names of the keys that start with the prefix, in order
NamesWithPrefix(parsedMeta, prefix) ==
  LET es == WithPrefix(parsedMeta, prefix)
  IN  [i \in 1..Len(es) |-> StripPrefix(es[i][1], prefix)]

IsShadeValue(n) == \E i \in 1..Len(shadeValues) : shadeValues[i] = n

\* rest.match(/^(.*?)-(\d{2,3})$/)
ShadeMatch(rest) ==
  LET n == Len(rest)
      digits(k) == \A i \in (n - k + 1)..n : IsDigit(At(rest, i))
  IN  IF n >= 4 /\ digits(3) /\ rest[n - 3] = "-"
        THEN [ok |-> TRUE, base |-> Sub(rest, 1, n - 4), shade |-> DigitsValue(Sub(rest, n - 2, n), 10)]
      ELSE IF n >= 3 /\ digits(2) /\ rest[n - 2] = "-"
        THEN [ok |-> TRUE, base |-> Sub(rest, 1, n - 3), shade |-> DigitsValue(Sub(rest, n - 1, n), 10)]
      ELSE [ok |-> FALSE, base |-> <<>>, shade |-> 0]

\* names of the tables and stylesheets below
BgName == <<"b", "g">>
RedName == <<"r", "e", "d">>
HoverName == <<"h", "o", "v", "e", "r">>
MdName == <<"m", "d">>

\* step 1: the active utilities
ActiveUtilities(parsedMeta) ==
  NamesWithPrefix(SelectSeq(parsedMeta, LAMBDA e : e[2] = TrueText), ConfigColorPrefix)

\* colorShades[base] ?? {}
ShadesOf(colorShades, base) ==
  IF HasKey(colorShades, base) THEN Lookup(colorShades, base) ELSE <<>>

\* the tables after an entry las-color-<rest>, its value resolved
ColorEntry(acc, rest, sm, resolved) ==
  IF sm.ok /\ IsShadeValue(sm.shade)
  THEN [acc EXCEPT !.colorShades =
          Put(acc.colorShades, sm.base, Put(ShadesOf(acc.colorShades, sm.base), sm.shade, resolved))]
  ELSE [acc EXCEPT !.colorDefaults = Put(acc.colorDefaults, rest, resolved)]

ColorKey(acc, rest, resolved) == ColorEntry(acc, rest, ShadeMatch(rest), resolved)

\* one round of the loop of step 2
ColorStep(acc, parsedMeta, entry) ==
  IF ~StartsWith(entry[1], ColorPrefix) THEN acc
  ELSE ColorKey(acc, StripPrefix(entry[1], ColorPrefix), resolveVar(entry[2], parsedMeta, 0))

\* step 2: colorShades and colorDefaults after the first i entries of parsedMeta
RECURSIVE ColorTables(_, _)
ColorTables(parsedMeta, i) ==
  IF i = 0 THEN [colorShades |-> <<>>, colorDefaults |-> <<>>]
  ELSE ColorStep(ColorTables(parsedMeta, i - 1), parsedMeta, parsedMeta[i])

\* colorShades[name]?.[shade]
ShadeOf(colorShades, name, shade) ==
  IF HasKey(colorShades, name) THEN Get(Lookup(colorShades, name), shade) ELSE Undefined

\* step 2.1: a colour without a default takes its shade 500, over the first i colours
RECURSIVE Backfill(_, _, _)
Backfill(colorShades, colorDefaults, i) ==
  IF i = 0 THEN colorDefaults
  ELSE LET acc == Backfill(colorShades, colorDefaults, i - 1)
           name == colorShades[i][1]
           shade500 == ShadeOf(colorShades, name, BaseShade)
       IN  IF Truthy(shade500) /\ ~Truthy(Get(acc, name)) THEN Put(acc, name, shade500.v)
           ELSE acc

\* the Renk + Shade loop with its two sources of a detail tried in the other order
ShadeClassBaseFirst(util, colorName, shade, colorShades, colorDefaults) ==
  LET shadeValue == ShadeOf(colorShades, colorName, shade)
      default == Get(colorDefaults, colorName)
      baseColor == IF default.has THEN default ELSE ShadeOf(colorShades, colorName, BaseShade)
  IN  [name |-> util \o Dash \o colorName \o Dash \o Dec(shade),
       detail |-> IF Truthy(baseColor)
                    THEN [has |-> TRUE, v |-> calculateShade(baseColor.v, shade)]
                  ELSE IF Truthy(shadeValue) THEN shadeValue
                  ELSE Undefined]

\* one class of the Renk + Shade loop
ShadeClass(util, colorName, shade, colorShades, colorDefaults) ==
  LET shadeValue == ShadeOf(colorShades, colorName, shade)
      default == Get(colorDefaults, colorName)
      baseColor == IF default.has THEN default ELSE ShadeOf(colorShades, colorName, BaseShade)
  IN  [name |-> util \o Dash \o colorName \o Dash \o Dec(shade),
       detail |-> IF Truthy(shadeValue) THEN shadeValue
                  ELSE IF Truthy(baseColor)
                    THEN [has |-> TRUE, v |-> calculateShade(baseColor.v, shade)]
                  ELSE Undefined]

\* one class of the single colours loop
SingleClass(util, entry, parsedMeta) ==
  [name |-> util \o Dash \o StripPrefix(entry[1], SingleColorPrefix),
   detail |-> IF entry[2] # <<>>
              THEN [has |-> TRUE, v |-> resolveVar(entry[2], parsedMeta, 0)]
              ELSE Undefined]

\* the classes pushed for one utility: colours by shades, then the single colours
UtilClasses(util, colorNames, colorShades, colorDefaults, singleColors, parsedMeta) ==
  Flatten([j \in 1..Len(colorNames) |->
             [k \in 1..Len(shadeValues) |->
                ShadeClass(util, colorNames[j], shadeValues[k], colorShades, colorDefaults)]])
  \o [j \in 1..Len(singleColors) |-> SingleClass(util, singleColors[j], parsedMeta)]

\* the loop over activeUtilities
ClassLoops(utils, colorNames, colorShades, colorDefaults, singleColors, parsedMeta) ==
  Flatten([i \in 1..Len(utils) |->
             UtilClasses(utils[i], colorNames, colorShades, colorDefaults, singleColors,
                         parsedMeta)])

\* steps 1, 2.1 and 3 and the colour names, from the tables of step 2
TableClasses(parsedMeta, tables) ==
  ClassLoops(ActiveUtilities(parsedMeta),
             Unique(Keys(tables.colorShades) \o Keys(tables.colorDefaults)),
             tables.colorShades,
             Backfill(tables.colorShades, tables.colorDefaults, Len(tables.colorShades)),
             WithPrefix(parsedMeta, SingleColorPrefix),
             parsedMeta)

\* step 5: the classes pushed, each with the detail written for it, in loop order
PlainClasses(parsedMeta) == TableClasses(parsedMeta, ColorTables(parsedMeta, Len(parsedMeta)))

\* the variant names without the default breakpoints
VariantNamesNoDefaults(parsedMeta) ==
  Unique(NamesWithPrefix(parsedMeta, VariantPrefix)
         \o NamesWithPrefix(parsedMeta, BreakpointPrefix))

\* step 4: the variant names
VariantNames(parsedMeta) ==
  Unique(NamesWithPrefix(parsedMeta, VariantPrefix)
         \o NamesWithPrefix(parsedMeta, BreakpointPrefix)
         \o defaultBreakpoints)

\* detailMap after the plain loop: the last detail written for each class name
PlainDetails(plain) ==
  LET written == {i \in 1..Len(plain) : plain[i].detail.has}
  IN  [c \in {plain[i].name : i \in written} |->
         plain[SetMax({i \in written : plain[i].name = c})].detail.v]

\* a variant loop that copies no detail
VariantDetailsNone(variantNames, plainDetails) == <<>>

\* detailMap[`${variantName}:${c}`] = detailMap[c] for a truthy detailMap[c]
VariantDetails(variantNames, plainDetails) ==
  LET copied == {c \in DOMAIN plainDetails : plainDetails[c] # <<>>}
      names == {variantNames[i] : i \in 1..Len(variantNames)}
  IN  [vc \in {v \o Colon \o c : v \in names, c \in copied} |->
         LET c == CHOOSE c \in copied : \E v \in names : vc = v \o Colon \o c
         IN  plainDetails[c]]

\* the class names pushed, in order
ClassNames(plain) == [i \in 1..Len(plain) |-> plain[i].name]

\* finalClasses: every class under every variant name
FinalClasses(variantNames, classes) ==
  Flatten([v \in 1..Len(variantNames) |->
             [i \in 1..Len(classes) |-> variantNames[v] \o Colon \o classes[i]]])

\* the value returned
Generated(classes, variantNames, plainDetails) ==
  [classes |-> classes \o FinalClasses(variantNames, classes),
   detailMap |-> VariantDetails(variantNames, plainDetails) @@ plainDetails,
   variants |-> variantNames]

GeneratedFrom(parsedMeta, plain) ==
  Generated(ClassNames(plain), VariantNames(parsedMeta), PlainDetails(plain))

generateClassesWithDetails(parsedMeta) == GeneratedFrom(parsedMeta, PlainClasses(parsedMeta))

(***************************************************************************)
(* parseMetaVars and parseUtilityClasses, on the text of the file.         *)
(***************************************************************************)
LowerLetters == {"a", "b", "c", "d", "e", "f", "g", "h", "i", "j", "k", "l", "m",
                 "n", "o", "p", "q", "r", "s", "t", "u", "v", "w", "x", "y", "z"}
UpperLetters == {"A", "B", "C", "D", "E", "F", "G", "H", "I", "J", "K", "L", "M",
                 "N", "O", "P", "Q", "R", "S", "T", "U", "V", "W", "X", "Y", "Z"}
IsAlnum(c) == c \in LowerLetters \/ c \in UpperLetters \/ IsDigit(c)
\* [\w-]
IsKeyChar(c) == IsAlnum(c) \/ c = "_" \/ c = "-"
\* [a-zA-Z0-9\\\/\-\[\]:]
IsClassChar(c) == IsAlnum(c) \/ c \in {"\\", "/", "-", "[", "]", ":"}
IsNotSemicolon(c) == c # ";"
IsNotBrace(c) == c # "}"

NoDecl == [ok |-> FALSE, end |-> 0, name |-> <<>>, value |-> <<>>]

\* the character classes of that pattern
MetaClass(class, c) ==
  CASE class = "key" -> IsKeyChar(c)
    [] class = "space" -> IsSpace(c)
    [] class = "notSemicolon" -> IsNotSemicolon(c)

\* after "--": [\w-]+, then ":" and \s*, [^;]+
MetaRuns == << <<2, "key">>, <<1, "space">>, <<0, "notSemicolon">> >>

\* the match at position i, from the positions e its runs end at
MetaFields(s, i, e) ==
  LET n1 == e[1]
      w  == e[2]
  IN  IF ~(At(s, i) = "-" /\ At(s, i + 1) = "-" /\ n1 > i + 2 /\ At(s, n1) = ":") THEN NoDecl
      ELSE IF w <= Len(s) /\ s[w] # ";" /\ e[3] <= Len(s)
        THEN [ok |-> TRUE, end |-> e[3], name |-> Sub(s, i + 2, n1 - 1),
              value |-> Sub(s, w, e[3] - 1)]
      ELSE IF At(s, w) = ";" /\ w > n1 + 1
        \* only spaces before the semicolon: \s* gives one back to [^;]+
        THEN [ok |-> TRUE, end |-> w, name |-> Sub(s, i + 2, n1 - 1), value |-> <<" ">>]
      ELSE NoDecl

\* /--([\w-]+):\s*([^;]+);/ anchored at position i
MetaDeclAt(s, i) == MetaFields(s, i, RunEnds(s, i, MetaRuns, MetaClass))

\* the regex.exec loop from position from on: vars[match[1]] = match[2].trim()
RECURSIVE MetaVarsFrom(_, _, _)
MetaVarsPut(content, found, m) ==
  MetaVarsFrom(content, m.end + 1, Put(found, m.name, Trim(m.value)))

\* hits: the positions from lastIndex on that the pattern matches at
MetaVarsNext(content, found, hits) ==
  IF hits = {} THEN found ELSE MetaVarsPut(content, found, MetaDeclAt(content, SetMin(hits)))

MetaVarsFrom(content, from, found) ==
  MetaVarsNext(content, found,
               {i \in from..Len(content) : /\ At(content, i) = "-" /\ At(content, i + 1) = "-"
                                           /\ MetaDeclAt(content, i).ok})

parseMetaVars(content) == MetaVarsFrom(content, 1, <<>>)

NoRule == [ok |-> FALSE, end |-> 0, name |-> <<>>, body |-> <<>>]

\* /\.([a-zA-Z0-9\\\/\-\[\]:]+)\{([^}]*)\}/ anchored at position i
RuleAt(s, i) ==
  LET n1 == RunEnd(s, i + 1, IsClassChar)
      e  == RunEnd(s, n1 + 1, IsNotBrace)
  IN  IF At(s, i) = "." /\ n1 > i + 1 /\ At(s, n1) = "{" /\ e <= Len(s)
      THEN [ok |-> TRUE, end |-> e, name |-> Sub(s, i + 1, n1 - 1), body |-> Sub(s, n1 + 1, e - 1)]
      ELSE NoRule

\* match[1].replace(/\\\//g, "/")
RECURSIVE Unescape(_)
Unescape(name) ==
  IF name = <<>> THEN <<>>
  ELSE IF At(name, 1) = "\\" /\ At(name, 2) = "/" THEN <<"/">> \o Unescape(Sub(name, 3, Len(name)))
  ELSE <<name[1]>> \o Unescape(Sub(name, 2, Len(name)))

\* body.split(";") from position i on
RECURSIVE SplitSemicolon(_, _)
SplitSemicolon(body, i) ==
  LET e == RunEnd(body, i, IsNotSemicolon)
  IN  IF e > Len(body) THEN <<Sub(body, i, Len(body))>>
      ELSE <<Sub(body, i, e - 1)>> \o SplitSemicolon(body, e + 1)

\* firstDeclaration ? `${firstDeclaration};` : body
FirstDeclaration(body) ==
  LET parts == SplitSemicolon(body, 1)
      kept == SelectSeq([i \in 1..Len(parts) |-> Trim(parts[i])], LAMBDA d : d # <<>>)
  IN  IF kept # <<>> THEN kept[1] \o <<";">> ELSE body

RECURSIVE UtilityClassesFrom(_, _, _)
UtilityClassesPut(content, classes, m) ==
  UtilityClassesFrom(content, m.end + 1, Put(classes, Unescape(m.name), FirstDeclaration(m.body)))

\* hits: the positions from lastIndex on that the pattern matches at
UtilityClassesNext(content, classes, hits) ==
  IF hits = {} THEN classes
  ELSE UtilityClassesPut(content, classes, RuleAt(content, SetMin(hits)))

UtilityClassesFrom(content, from, classes) ==
  UtilityClassesNext(content, classes,
                     {i \in from..Len(content) : content[i] = "." /\ RuleAt(content, i).ok})

parseUtilityClasses(content) == UtilityClassesFrom(content, 1, <<>>)

(***************************************************************************)
(* Each behaviour runs one part of the program; a part that is not running *)
(* holds its idle value throughout.                                        *)
(***************************************************************************)
VarIdle == [pc |-> "idle"]
ShadeIdle == [pc |-> "idle"]
MixIdle == [pc |-> "idle"]
GenIdle == [pc |-> "idle"]
NoLocals == [metaGenerated |-> <<>>, utilityClassesMap |-> <<>>]
LastIdle == [outcome |-> "idle", dir |-> <<>>, result |-> [has |-> FALSE, v |-> <<>>],
             said |-> FALSE, locals |-> NoLocals]
ResolverIdle ==
  /\ files = <<>> /\ workspace = <<>> /\ classCache = <<>> /\ errorShownFor = {}
  /\ shown = <<>> /\ computations = <<>> /\ lookups = 0 /\ last = LastIdle

(***************************************************************************)
(* One top-level call of resolveVar as a step machine, followed by a       *)
(* second call on its result.  rv.depth is the recursion depth of the      *)
(* frame about to run, rv.subs the number of substitutions made so far.    *)
(***************************************************************************)
\* the longest indirection chain and the longest reference cycle of the input tables
MaxChain == 7
MaxCycle == 4

Letters == <<"a", "b", "c", "d", "e", "f", "g", "h", "i", "j">>
Name(k) == <<Letters[k]>>
Unknown == <<"u">>
Ref(n) == VarOpen \o <<"-", "-">> \o n \o <<")">>
RefFb(n, fb) == VarOpen \o <<"-", "-">> \o n \o <<",", " ">> \o fb \o <<")">>
Red == <<"#", "f", "0", "0">>
Green == <<"#", "0", "f", "0">>

\* Name(1) -> Name(2) -> ... -> Name(n) -> literal
Chain(n, lit) ==
  [k \in 1..n |-> <<Name(k), IF k = n THEN lit ELSE Ref(Name(k + 1))>>]
\* Name(1) -> Name(2) -> ... -> Name(n) -> Name(1)
Cycle(n) == [k \in 1..n |-> <<Name(k), Ref(Name((k % n) + 1))>>]

VarTables ==
  {<<>>} \cup {Chain(n, Red) : n \in 1..MaxChain}
         \cup {Chain(n, <<" ">> \o Red \o <<" ">>) : n \in 1..MaxChain}
         \cup {Cycle(n) : n \in 1..MaxCycle}

VarValues ==
  { <<>>, <<" ", " ">>, Red, <<" ">> \o Red \o <<" ">>,
    Ref(Name(1)),
    <<" ">> \o Ref(Name(1)) \o <<" ">>,
    <<"1", " ">> \o Ref(Name(1)) \o <<" ", "2">>,
    Ref(Name(1)) \o Ref(Name(2)),
    <<"v", "a", "r", "(", " ", "-", "-", "a", " ", ",", " ", "x", " ", ")">>,
    Ref(Unknown),
    <<"x", " ">> \o Ref(Unknown),
    Ref(Unknown) \o <<" ", "y">>,
    <<" ">> \o Ref(Unknown),
    RefFb(Unknown, Green),
    RefFb(Unknown, Ref(Name(1))),
    <<"v", "a", "r", "(", "-", "-", "u", ",", ")">>,
    <<"v", "a", "r", "(", "-", "-", "u", ",", " ", ")">>,
    Ref(ValueOfName) }

InitVar ==
  /\ \E v \in VarValues, t \in VarTables :
       rv = [input |-> v, meta |-> t, value |-> v, depth |-> 0, subs |-> 0,
             pc |-> "call", call |-> 1, first |-> <<>>, firstDepth |-> 0,
             firstSubs |-> 0]
  /\ sh = ShadeIdle /\ mx = MixIdle /\ gen = GenIdle /\ ResolverIdle

\* the guard with a cap two substitutions lower
VarGuardLowCap == rv.value = <<>> \/ rv.depth > MaxDepth - 2

\* if (!value || depth > 5) return value;
VarGuard == rv.value = <<>> \/ rv.depth > MaxDepth

VarReturnAsIs ==
  /\ rv.pc = "call" /\ VarGuard
  /\ rv' = [rv EXCEPT !.pc = "done"]
  /\ UNCHANGED <<sh, mx, gen, resolverVars>>

\* if (!match) return value.trim();
VarReturnTrimmed ==
  /\ rv.pc = "call" /\ ~VarGuard /\ ~VarMatch(rv.value).ok
  /\ rv' = [rv EXCEPT !.pc = "done", !.value = Trim(rv.value)]
  /\ UNCHANGED <<sh, mx, gen, resolverVars>>

\* return resolveVar(replaced, meta, depth + 1);
VarSubstitute ==
  /\ rv.pc = "call" /\ ~VarGuard
  /\ LET m == VarMatch(rv.value)
     IN  /\ m.ok /\ ~ReplacerThrows(rv.meta, m)
         /\ rv' = [rv EXCEPT !.value = Replaced(rv.value, rv.meta, m),
                             !.depth = rv.depth + 1, !.subs = rv.subs + 1]
  /\ UNCHANGED <<sh, mx, gen, resolverVars>>

\* value.replace calls an inherited Object.prototype method, which throws
VarThrow ==
  /\ rv.pc = "call" /\ ~VarGuard
  /\ LET m == VarMatch(rv.value)
     IN  m.ok /\ ReplacerThrows(rv.meta, m)
  /\ rv' = [rv EXCEPT !.pc = "raised"]
  /\ UNCHANGED <<sh, mx, gen, resolverVars>>

\* the caller resolves the returned value again
VarSecondCall ==
  /\ rv.pc = "done" /\ rv.call = 1
  /\ rv' = [rv EXCEPT !.pc = "call", !.call = 2, !.first = rv.value,
                      !.firstDepth = rv.depth, !.firstSubs = rv.subs,
                      !.depth = 0, !.subs = 0]
  /\ UNCHANGED <<sh, mx, gen, resolverVars>>

NextVar == VarReturnAsIs \/ VarReturnTrimmed \/ VarSubstitute \/ VarThrow \/ VarSecondCall

SpecVar == InitVar /\ [][NextVar]_vars

\* the step machine computes what the recursive definition computes
VarStepsAgree ==
  /\ (rv.pc = "done" /\ rv.call = 1) => rv.value = resolveVar(rv.input, rv.meta, 0)
  /\ (rv.pc = "raised" /\ rv.call = 1) => resolveVar(rv.input, rv.meta, 0) = Raised

C7_TerminatesNeverRaises ==
  rv.pc # "raised" /\ rv.depth <= MaxDepth + 1

\* C10: when the value holds a reference whose name the table lacks and which
\* has no fallback, the result is the trimmed input: the reference stays as
\* written and the text around it appears once.
C10_UnknownLeftAsIs ==
  LET m == VarMatch(rv.input)
  IN  (/\ rv.pc = "done" /\ rv.call = 1
       /\ m.ok /\ ~m.hasFb /\ ~HasKey(rv.meta, m.name))
        => rv.value = Trim(rv.input)

\* the literals the chains of VarTables end in
ChainLiterals == {Red, <<" ">> \o Red \o <<" ">>}

\* C12, as the specification states it: one top-level call of resolveVar makes
\* at most 5 substitutions.
C12_AtMostFiveSubstitutions == rv.subs <= MaxDepth

\* C12, amended: one top-level call makes at most 6 substitutions, one in each
\* frame of depth 0 to 5.  On a chain of n names resolved from its first name,
\* the result is the trimmed literal for n <= 5, the literal as it is written
\* for n = 6, and the reference to the seventh name for n > 6: the value
\* reached after exactly 6 substitutions, returned as-is.
C12_AtMostSixSubstitutions ==
  /\ rv.subs <= MaxDepth + 1
  /\ \A n \in 1..MaxChain, lit \in ChainLiterals :
       (/\ rv.pc = "done" /\ rv.call = 1
        /\ rv.input = Ref(Name(1)) /\ rv.meta = Chain(n, lit))
         => /\ rv.subs = IF n > MaxDepth + 1 THEN MaxDepth + 1 ELSE n
            /\ rv.value = IF n > MaxDepth + 1 THEN Ref(Name(MaxDepth + 2))
                          ELSE IF n = MaxDepth + 1 THEN lit
                          ELSE Trim(lit)

\* a chain of seven names: the call returned the reference to the seventh
\* after six substitutions
C12_Witness ==
  /\ rv.pc = "done" /\ rv.call = 1
  /\ rv.input = Ref(Name(1)) /\ rv.meta = Chain(MaxDepth + 2, Red)
  /\ rv.subs = MaxDepth + 1 /\ rv.depth = MaxDepth + 1
  /\ rv.value = Ref(Name(MaxDepth + 2))

(***************************************************************************)
(* One call of calculateShade on a base colour and a rung of shadeValues.  *)
(***************************************************************************)
ShadeBases ==
  { Transparent, CurrentColor, White, Black, Red, Green,
    <<"#", "f", "f", "0", "0", "0", "0">>,
    <<"#", "F", "F", "0", "0", "0", "0">>,
    <<"#", "3", "b", "8", "2", "f", "6">>,
    <<"f", "f", "0", "0", "0", "0">>,
    <<"r", "g", "b", "(", "2", "5", "5", ",", " ", "0", ",", " ", "0", ")">>,
    <<"2", "5", "5", " ", "0", " ", "0">>,
    <<"r", "e", "d">>,
    <<"c", "u", "r", "r", "e", "n", "t", "c", "o", "l", "o", "r">>,
    <<" ", "t", "r", "a", "n", "s", "p", "a", "r", "e", "n", "t">>,
    <<"#", "f", "f">>,
    <<>> }

InitShade ==
  /\ \E b \in ShadeBases, r \in 1..Len(shadeValues) :
       sh = [pc |-> "call", base |-> b, shade |-> shadeValues[r], out |-> <<>>]
  /\ rv = VarIdle /\ mx = MixIdle /\ gen = GenIdle /\ ResolverIdle

ShadeCall ==
  /\ sh.pc = "call"
  /\ sh' = [sh EXCEPT !.pc = "done", !.out = calculateShade(sh.base, sh.shade)]
  /\ UNCHANGED <<rv, mx, gen, resolverVars>>

NextShade == ShadeCall

SpecShade == InitShade /\ [][NextShade]_vars

\* the base colours whose channels the source can read
ShadeParses == sh.pc = "done" => (colorToRgb(sh.base) # NoRgb <=> sh.base \notin
  { Transparent, CurrentColor, <<"r", "e", "d">>, <<"#", "f", "f">>, <<>>,
    <<"c", "u", "r", "r", "e", "n", "t", "c", "o", "l", "o", "r">>,
    <<" ", "t", "r", "a", "n", "s", "p", "a", "r", "e", "n", "t">> })

\* C9: calculateShade returns the base colour string unchanged whenever the
\* rung is 500, whatever the base colour, and for every rung whenever the base
\* colour is exactly "transparent" or "currentColor".
C9_ShadeIdentity ==
  (sh.pc = "done" /\ (sh.shade = 500 \/ sh.base \in {Transparent, CurrentColor}))
    => sh.out = sh.base

\* a short hex colour at rung 500 came back as written, not as its long form
C9_Witness ==
  /\ sh.pc = "done" /\ sh.shade = 500 /\ sh.base = Red /\ sh.out = Red
  /\ mixColors(Red, Black, Num(0)) # Red

(***************************************************************************)
(* One call of mixColors on two colour strings and a weight.               *)
(***************************************************************************)
\* colours of the four forms colorToRgb reads, with channels inside and
\* outside 0..255, a fraction and a number text that is not a number, and
\* two strings it cannot read
MixColours ==
  { Red, White, Black,
    <<"r", "g", "b", "(", "2", "5", "5", ",", " ", "0", ",", " ", "0", ")">>,
    <<"2", "5", "5", " ", "0", " ", "0">>,
    <<"h", "s", "l", "(", "1", "2", "0", ",", " ", "1", "0", "0", "%", ",", " ", "5", "0", "%", ")">>,
    <<"0", ".", "5", " ", "0", ".", "5", " ", "0", ".", "5">>,
    <<"r", "g", "b", "(", "3", "0", "0", ",", " ", "0", ",", " ", "0", ")">>,
    <<"r", "g", "b", "(", "4", "0", "9", "6", ",", " ", "0", ",", " ", "0", ")">>,
    <<"1", ".", ".", "2", " ", "3", " ", "4">>,
    <<"r", "e", "d">>,
    <<"#", "f", "f", "f", "f">> }

\* weights between 0 and 100
MixWeights == {0, 10, 25, 50, 75, 100}

InitMix ==
  /\ \E c1 \in MixColours, c2 \in MixColours, w \in MixWeights :
       mx = [pc |-> "call", color1 |-> c1, color2 |-> c2, weight |-> w, out |-> <<>>]
  /\ rv = VarIdle /\ sh = ShadeIdle /\ gen = GenIdle /\ ResolverIdle

\* c1 and c2 are both objects
BothParse(color1, color2) == \A k \in 1..2 : colorToRgb(<<color1, color2>>[k]).ok

\* if (!c1 || !c2) return color1;
MixUnparsed ==
  /\ mx.pc = "call" /\ ~BothParse(mx.color1, mx.color2)
  /\ mx' = [mx EXCEPT !.pc = "done", !.out = mx.color1]
  /\ UNCHANGED <<rv, sh, gen, resolverVars>>

\* return rgbToHex(r, g, b);
MixBlend ==
  /\ mx.pc = "call" /\ BothParse(mx.color1, mx.color2)
  /\ mx' = [mx EXCEPT !.pc = "done",
                      !.out = mixColors(mx.color1, mx.color2, Num(mx.weight))]
  /\ UNCHANGED <<rv, sh, gen, resolverVars>>

NextMix == MixUnparsed \/ MixBlend

SpecMix == InitMix /\ [][NextMix]_vars

\* the two paths together compute mixColors
MixStepsAgree ==
  mx.pc = "done" => mx.out = mixColors(mx.color1, mx.color2, Num(mx.weight))

\* channel k of a string "#rrggbb"
HexChannel(out, k) == DigitsValue(Sub(out, 2 * k, 2 * k + 1), 16)
\* "#" and six hex digits
IsSixDigitHex(out) == Len(out) = 7 /\ out[1] = "#" /\ AllHex(Sub(out, 2, 7))

\* Math.round(c1 * (1 - w) + c2 * w) on channel k of the two parsed colours
Blend(color1, color2, weight, k) ==
  MixChannel(Channel(colorToRgb(color1), k), Channel(colorToRgb(color2), k),
             FDivInt(Num(weight), 100))

\* C11: for two colour strings colorToRgb can parse and a weight in 0..100,
\* mixColors returns "#" and six hex digits, and each of the three channels
\* it writes lies in 0..255 and is the rounded weighted mean of the parsed
\* channels.
C11_MixIsRoundedHex ==
  (mx.pc = "done" /\ BothParse(mx.color1, mx.color2))
    => /\ IsSixDigitHex(mx.out)
       /\ \A k \in 1..3 :
            /\ HexChannel(mx.out, k) \in 0..255
            /\ Blend(mx.color1, mx.color2, mx.weight, k)
                 = [nan |-> FALSE, n |-> HexChannel(mx.out, k)]

\* the same for parsed channels that are numbers between 0 and 255: what the
\* source does compute
C11_InRangeMixIsRoundedHex ==
  (/\ mx.pc = "done" /\ BothParse(mx.color1, mx.color2)
   /\ \A k \in 1..3 :
        /\ Blend(mx.color1, mx.color1, 0, k) \in [nan : {FALSE}, n : 0..255]
        /\ Blend(mx.color2, mx.color2, 0, k) \in [nan : {FALSE}, n : 0..255])
    => /\ IsSixDigitHex(mx.out)
       /\ \A k \in 1..3 :
            /\ HexChannel(mx.out, k) \in 0..255
            /\ Blend(mx.color1, mx.color2, mx.weight, k)
                 = [nan |-> FALSE, n |-> HexChannel(mx.out, k)]

(***************************************************************************)
(* createLascssResolver: findLascssDir and resolveClasses over a file      *)
(* system.  A path is the sequence of its segments, the root the empty     *)
(* sequence.  The file system maps each node_modules/lascss directory to   *)
(* whether it exists and to the texts of its two stylesheets (0: no file). *)
(***************************************************************************)
\* path.join(current, "node_modules", "lascss")
LascssOf(dir) == dir \o <<"node_modules", "lascss">>

\* path.dirname
Dirname(dir) == IF dir = <<>> THEN dir ELSE Sub(dir, 1, Len(dir) - 1)

NoFile == 0

\* fs.existsSync of a node_modules/lascss directory
ExistsDir(fs, dir) == dir \in DOMAIN fs /\ fs[dir].exists

RECURSIVE findLascssDir(_, _)
findLascssDir(fs, startDir) ==
  LET candidate == LascssOf(startDir)
      parent == Dirname(startDir)
  IN  IF ExistsDir(fs, candidate) THEN [has |-> TRUE, v |-> candidate]
      ELSE IF parent = startDir THEN Undefined
      ELSE findLascssDir(fs, parent)

\* findLascssDir(dirname(document)) || (workspaceFolders?.[0] ? findLascssDir(it) : undefined)
LascssDirFor(fs, ws, docDir) ==
  LET own == findLascssDir(fs, docDir)
  IN  IF own.has THEN own
      ELSE IF ws.has THEN findLascssDir(fs, ws.v)
      ELSE Undefined

\* the key errorShownFor holds for a lookup that found no directory
MissingDirKey == <<"missing-dir">>
NotFoundMessage == [kind |-> "not-found", dir |-> <<>>]
ArtifactsMessage(dir) == [kind |-> "artifacts-missing", dir |-> dir]

\* a check that finds the stylesheets missing whatever the directory holds
ArtifactsMissingAlways(st) == TRUE

\* !fs.existsSync(metaPath) || !fs.existsSync(utilityPath)
ArtifactsMissing(st) == st.meta = NoFile \/ st.utility = NoFile

\* errorShownFor.add left out
MarkShownForgets(shownFor, key) == shownFor

\* errorShownFor.add(key)
MarkShown(shownFor, key) == shownFor \cup {key}

\* a cache that never answers
CacheHasNever(cache, dir) == FALSE

\* classCache.has(lascssDir)
CacheHas(cache, dir) == dir \in DOMAIN cache

\* an object as a function from its keys
AsFunction(obj) == [k \in {obj[i][1] : i \in 1..Len(obj)} |-> Lookup(obj, k)]

\* the two maps spread in the other order
SpreadUtilityLast(utilityClassesMap, metaDetailMap) ==
  AsFunction(utilityClassesMap) @@ metaDetailMap

\* { ...utilityClassesMap, ...metaGenerated.detailMap }: the later spread wins
Spread(utilityClassesMap, metaDetailMap) ==
  metaDetailMap @@ AsFunction(utilityClassesMap)

\* cls.indexOf(":"), counted from 1; 0 when there is none
IndexOfColon(cls) ==
  LET at == {i \in 1..Len(cls) : cls[i] = ":"}
  IN  IF at = {} THEN 0 ELSE SetMin(at)

\* the variants of the generator, then the prefix of every class with a colon
CatalogVariants(metaVariants, allClasses) ==
  LET prefixed == SelectSeq(allClasses, LAMBDA c : IndexOfColon(c) > 1)
  IN  Unique(metaVariants
             \o [i \in 1..Len(prefixed) |-> Sub(prefixed[i], 1, IndexOfColon(prefixed[i]) - 1)])

\* the catalog stored, with the locals it is made from
Catalog(metaGenerated, utilityClassesMap, allClasses) ==
  [metaGenerated |-> metaGenerated,
   utilityClassesMap |-> utilityClassesMap,
   cached |-> [classes |-> allClasses,
               detailMap |-> Spread(utilityClassesMap, metaGenerated.detailMap),
               variants |-> CatalogVariants(metaGenerated.variants, allClasses)]]

\* allClasses = Array.from(new Set([...metaGenerated.classes, ...Object.keys(utilityClassesMap)]))
CatalogOf(metaGenerated, utilityClassesMap) ==
  Catalog(metaGenerated, utilityClassesMap,
          Unique(metaGenerated.classes \o Keys(utilityClassesMap)))

\* resolveClasses from parseMetaVars to the catalog it stores, with its locals
ComputeCatalog(metaText, utilityText) ==
  CatalogOf(generateClassesWithDetails(parseMetaVars(metaText)),
            parseUtilityClasses(utilityText))

(***************************************************************************)
(* A resolver's life: lookups from documents of three directories, and a   *)
(* file system that changes between them.                                  *)
(***************************************************************************)
\* the number of resolveClasses calls of a behaviour
MaxLookups == 3

MetaText1 ==
  <<":", "r", "o", "o", "t", "{", "-", "-", "l", "a", "s", "-", "c", "o",
    "n", "f", "i", "g", "-", "c", "o", "l", "o", "r", "-", "b", "g", ":",
    "t", "r", "u", "e", ";", "-", "-", "l", "a", "s", "-", "s", "i", "n",
    "g", "l", "e", "-", "c", "o", "l", "o", "r", "-", "w", ":", "#", "f",
    "f", "f", ";", "-", "-", "l", "a", "s", "-", "v", "a", "r", "i", "a",
    "n", "t", "-", "h", "o", "v", "e", "r", ":", "1", ";", "}">>
MetaText2 ==
  <<":", "r", "o", "o", "t", "{", "-", "-", "l", "a", "s", "-", "c", "o",
    "n", "f", "i", "g", "-", "c", "o", "l", "o", "r", "-", "b", "g", ":",
    " ", "t", "r", "u", "e", ";", "-", "-", "l", "a", "s", "-", "s", "i",
    "n", "g", "l", "e", "-", "c", "o", "l", "o", "r", "-", "w", ":", " ",
    "#", "0", "0", "0", " ", ";", "-", "-", "l", "a", "s", "-", "s", "i",
    "n", "g", "l", "e", "-", "c", "o", "l", "o", "r", "-", "k", ":", "v",
    "a", "r", "(", "-", "-", "u", ",", " ", ")", ";", "}">>
UtilityText1 ==
  <<".", "b", "g", "-", "w", "{", "b", "a", "c", "k", "g", "r", "o", "u",
    "n", "d", "-", "c", "o", "l", "o", "r", ":", "v", "a", "r", "(", "-",
    "-", "l", "a", "s", "-", "s", "i", "n", "g", "l", "e", "-", "c", "o",
    "l", "o", "r", "-", "w", ")", "}", ".", "f", "l", "e", "x", "{", "d",
    "i", "s", "p", "l", "a", "y", ":", "f", "l", "e", "x", ";", "g", "a",
    "p", ":", "0", "}", ".", "w", "-", "1", "\\", "/", "2", "{", "w", "i",
    "d", "t", "h", ":", "5", "0", "%", "}", ".", "d", "a", "r", "k", "\\",
    ":", "f", "l", "e", "x", "{", "d", "i", "s", "p", "l", "a", "y", ":",
    "f", "l", "e", "x", "}">>
MetaTexts == <<MetaText1, MetaText2>>
UtilityTexts == <<UtilityText1>>

ProjectDir == <<"p">>
PackageDir == <<"p", "s">>
OtherDir == <<"q">>
DocDirs == {ProjectDir, PackageDir, OtherDir}
LascssDirs == {LascssOf(ProjectDir), LascssOf(PackageDir)}

\* what a node_modules/lascss may hold: nothing of it exists, or it exists with
\* each stylesheet missing or holding one of the texts
DirStates ==
  {[exists |-> FALSE, meta |-> NoFile, utility |-> NoFile]} \cup
  [exists : {TRUE}, meta : 0..Len(MetaTexts), utility : 0..Len(UtilityTexts)]

\* what resolveClasses computes from each pair of stylesheet texts
Computed ==
  [m \in 1..Len(MetaTexts), u \in 1..Len(UtilityTexts) |->
     ComputeCatalog(MetaTexts[m], UtilityTexts[u])]

\* a new resolver (empty classCache and errorShownFor) over any file system,
\* with or without a workspace folder
Init ==
  /\ files \in [LascssDirs -> DirStates]
  /\ workspace \in {Undefined, [has |-> TRUE, v |-> ProjectDir]}
  /\ classCache = <<>>
  /\ errorShownFor = {}
  /\ shown = <<>>
  /\ computations = <<>>
  /\ lookups = 0
  /\ last = LastIdle
  /\ rv = VarIdle /\ sh = ShadeIdle /\ mx = MixIdle /\ gen = GenIdle

\* if (!lascssDir) { ... return undefined; }
ResolveNoDir(docDir) ==
  /\ lookups < MaxLookups
  /\ ~LascssDirFor(files, workspace, docDir).has
  /\ shown' = IF MissingDirKey \in errorShownFor THEN shown
              ELSE Append(shown, NotFoundMessage)
  /\ errorShownFor' = IF MissingDirKey \in errorShownFor THEN errorShownFor
                      ELSE MarkShown(errorShownFor, MissingDirKey)
  /\ last' = [outcome |-> "no-dir", dir |-> <<>>, result |-> Undefined,
              said |-> MissingDirKey \notin errorShownFor, locals |-> NoLocals]
  /\ lookups' = lookups + 1
  /\ UNCHANGED <<files, workspace, classCache, computations, rv, sh, mx, gen>>

\* if (classCache.has(lascssDir)) return classCache.get(lascssDir);
ResolveCached(docDir) ==
  /\ lookups < MaxLookups
  /\ LET lascssDir == LascssDirFor(files, workspace, docDir)
     IN  /\ lascssDir.has
         /\ CacheHas(classCache, lascssDir.v)
         /\ last' = [outcome |-> "cached", dir |-> lascssDir.v,
                     result |-> [has |-> TRUE, v |-> classCache[lascssDir.v]],
                     said |-> FALSE, locals |-> NoLocals]
  /\ lookups' = lookups + 1
  /\ UNCHANGED <<files, workspace, classCache, errorShownFor, shown, computations, rv, sh, mx, gen>>

\* if (!fs.existsSync(metaPath) || !fs.existsSync(utilityPath)) { ... return undefined; }
ResolveArtifactsMissing(docDir) ==
  /\ lookups < MaxLookups
  /\ LET lascssDir == LascssDirFor(files, workspace, docDir)
     IN  /\ lascssDir.has
         /\ ~CacheHas(classCache, lascssDir.v)
         /\ ArtifactsMissing(files[lascssDir.v])
         /\ shown' = IF lascssDir.v \in errorShownFor THEN shown
                     ELSE Append(shown, ArtifactsMessage(lascssDir.v))
         /\ errorShownFor' = IF lascssDir.v \in errorShownFor THEN errorShownFor
                             ELSE MarkShown(errorShownFor, lascssDir.v)
         /\ last' = [outcome |-> "artifacts-missing", dir |-> lascssDir.v,
                     result |-> Undefined, said |-> lascssDir.v \notin errorShownFor,
                     locals |-> NoLocals]
  /\ lookups' = lookups + 1
  /\ UNCHANGED <<files, workspace, classCache, computations, rv, sh, mx, gen>>

\* classCache.set(lascssDir, cached); return cached
StoreCatalog(dir, c) ==
  /\ classCache' = (dir :> c.cached) @@ classCache
  /\ computations' = Append(computations, [dir |-> dir, catalog |-> c.cached])
  /\ last' = [outcome |-> "computed", dir |-> dir,
              result |-> [has |-> TRUE, v |-> c.cached], said |-> FALSE,
              locals |-> [metaGenerated |-> c.metaGenerated,
                          utilityClassesMap |-> c.utilityClassesMap]]

\* the call that passes the three early returns, lascssDir found
ComputeIn(lascssDir) ==
  /\ lascssDir.has
  /\ ~CacheHas(classCache, lascssDir.v)
  /\ ~ArtifactsMissing(files[lascssDir.v])
  /\ StoreCatalog(lascssDir.v, Computed[files[lascssDir.v].meta, files[lascssDir.v].utility])

\* parse, generate, merge, classCache.set(lascssDir, cached), return cached
ResolveComputed(docDir) ==
  /\ lookups < MaxLookups
  /\ ComputeIn(LascssDirFor(files, workspace, docDir))
  /\ lookups' = lookups + 1
  /\ UNCHANGED <<files, workspace, errorShownFor, shown, rv, sh, mx, gen>>

\* between lookups a node_modules/lascss is installed, removed, or has its
\* stylesheets written or deleted
FileSystemChanges ==
  /\ \E dir \in LascssDirs, st \in DirStates :
       /\ st # files[dir]
       /\ files' = [files EXCEPT ![dir] = st]
  /\ UNCHANGED <<workspace, classCache, errorShownFor, shown, computations, lookups, last,
               rv, sh, mx, gen>>

Next ==
  \/ \E docDir \in DocDirs : ResolveNoDir(docDir)
  \/ \E docDir \in DocDirs : ResolveCached(docDir)
  \/ \E docDir \in DocDirs : ResolveArtifactsMissing(docDir)
  \/ \E docDir \in DocDirs : ResolveComputed(docDir)
  \/ FileSystemChanges

Spec == Init /\ [][Next]_vars

C2_MessagesOnce ==
  /\ \A i, j \in 1..Len(shown) : i # j => shown[i] # shown[j]
  /\ Cardinality({i \in 1..Len(shown) : shown[i].kind = "not-found"}) <= 1
  /\ last.outcome \in {"no-dir", "artifacts-missing"} => ~last.result.has
  /\ (last.outcome \in {"no-dir", "artifacts-missing"} /\ last.said) =>
       shown[Len(shown)] = (IF last.outcome = "no-dir" THEN NotFoundMessage
                            ELSE ArtifactsMessage(last.dir))

\* three lookups failed, the last for stylesheets missing from a directory
\* that was reported before: one message of that kind, none from this lookup
C2_Witness ==
  /\ lookups = 3 /\ computations = <<>>
  /\ last.outcome = "artifacts-missing" /\ ~last.said
  /\ shown = <<NotFoundMessage, ArtifactsMessage(last.dir)>>

\* C3: once a lookup has computed the catalog of an installation directory,
\* every later lookup that resolves to that directory returns that stored
\* catalog, whatever became of the stylesheets; nothing is evicted or
\* replaced, so the catalog of a directory is computed at most once.
C3_CatalogComputedOnce ==
  /\ \A i, j \in 1..Len(computations) :
       i # j => computations[i].dir # computations[j].dir
  /\ \A i \in 1..Len(computations) :
       /\ computations[i].dir \in DOMAIN classCache
       /\ classCache[computations[i].dir] = computations[i].catalog
  /\ DOMAIN classCache = {computations[i].dir : i \in 1..Len(computations)}
  /\ last.outcome = "cached" =>
       \E i \in 1..Len(computations) :
         /\ computations[i].dir = last.dir
         /\ last.result = [has |-> TRUE, v |-> computations[i].catalog]

\* a lookup was answered from the cache after meta.min.css was replaced by a
\* text that gives another catalog
C3_Witness ==
  /\ last.outcome = "cached"
  /\ files[last.dir].meta # NoFile /\ files[last.dir].utility # NoFile
  /\ Computed[files[last.dir].meta, files[last.dir].utility].cached # last.result.v

\* C4, as the specification states it: for every plain class P of the catalog
\* that has a detail entry and every variant name V of the catalog, the
\* catalog's classes contain "V:P" and its detail map gives "V:P" the detail of P.
C4_VariantExpansion ==
  last.result.has =>
    LET catalog == last.result.v
        has(seq, x) == \E i \in 1..Len(seq) : seq[i] = x
    IN  \A p \in 1..Len(catalog.classes), v \in 1..Len(catalog.variants) :
          LET P == catalog.classes[p]
              VP == catalog.variants[v] \o Colon \o P
          IN  (IndexOfColon(P) = 0 /\ P \in DOMAIN catalog.detailMap)
                => /\ has(catalog.classes, VP)
                   /\ VP \in DOMAIN catalog.detailMap
                   /\ catalog.detailMap[VP] = catalog.detailMap[P]

\* C4, amended: for every plain class P that generateClassesWithDetails gives
\* a non-empty detail and every variant name V of its variant sequence, the
\* generator's classes and the catalog's classes contain "V:P", and both
\* detail maps give "V:P" the detail of P.  (Classes that come from the
\* utility stylesheet, and variant names found in its class names, are not
\* expanded.)
C4_GeneratedVariantExpansion ==
  last.outcome = "computed" =>
    LET generated == last.locals.metaGenerated
        catalog == last.result.v
        has(seq, x) == \E i \in 1..Len(seq) : seq[i] = x
    IN  \A p \in 1..Len(generated.classes), v \in 1..Len(generated.variants) :
          LET P == generated.classes[p]
              VP == generated.variants[v] \o Colon \o P
          IN  (/\ IndexOfColon(P) = 0 /\ P \in DOMAIN generated.detailMap
               /\ generated.detailMap[P] # <<>>)
                => /\ has(generated.classes, VP) /\ has(catalog.classes, VP)
                   /\ VP \in DOMAIN generated.detailMap
                   /\ generated.detailMap[VP] = generated.detailMap[P]
                   /\ VP \in DOMAIN catalog.detailMap
                   /\ catalog.detailMap[VP] = catalog.detailMap[P]

\* the catalog has hover:bg-w with the colour of bg-w, and the variant hover
C4_Witness ==
  /\ last.outcome = "computed"
  /\ \E v \in 1..Len(last.result.v.variants) : last.result.v.variants[v] = HoverName
  /\ last.result.v.detailMap[<<"b", "g", "-", "w">>] = <<"#", "f", "f", "f">>
  /\ last.result.v.detailMap[HoverName \o Colon \o <<"b", "g", "-", "w">>] = <<"#", "f", "f", "f">>

\* C13: a failing lookup leaves the catalog cache unchanged: a lookup that
\* finds no installation directory, or finds a stylesheet missing, stores
\* nothing; and a lookup for a directory that failed before (its error has
\* been shown) and is not cached, made when both stylesheets exist, computes
\* the catalog of the two stylesheets, caches it under the directory, returns
\* it and shows no message.
C13_FailingLookupKeepsCache ==
  [][/\ (lookups' = lookups + 1 /\ last'.outcome \in {"no-dir", "artifacts-missing"})
          => classCache' = classCache
     /\ \A dir \in LascssDirs :
          (/\ lookups' = lookups + 1
           /\ last'.outcome # "no-dir" /\ last'.dir = dir
           /\ dir \in errorShownFor /\ dir \notin DOMAIN classCache
           /\ files[dir].meta # NoFile /\ files[dir].utility # NoFile)
            => /\ last'.outcome = "computed"
               /\ last'.result = [has |-> TRUE,
                                  v |-> Computed[files[dir].meta, files[dir].utility].cached]
               /\ classCache' = (dir :> last'.result.v) @@ classCache
               /\ shown' = shown /\ ~last'.said]_vars

\* a lookup found no directory, the next found the directory without its
\* stylesheets, and the third, made after both were written, computed and
\* cached the catalog: the two messages shown are those of the failures
C13_Witness ==
  /\ last.outcome = "computed" /\ ~last.said
  /\ shown = <<NotFoundMessage, ArtifactsMessage(last.dir)>>
  /\ errorShownFor = {MissingDirKey, last.dir}
  /\ DOMAIN classCache = {last.dir}
  /\ classCache[last.dir] = last.result.v

(***************************************************************************)
(* One call of generateClassesWithDetails on a token table.                *)
(***************************************************************************)
One == <<"1">>
LongRed == <<"#", "f", "f", "0", "0", "0", "0">>
ShadeX == <<"#", "1", "2", "3", "4", "5", "6">>
ShadeX2 == <<"#", "a", "b", "c", "d", "e", "f">>
EmptyFallback == <<"v", "a", "r", "(", "-", "-", "u", ",", " ", ")">>

\* the table of the concrete scenario, with the keys the specification writes
SpecScenarioTable ==
  << <<Sub(ConfigColorPrefix, 5, Len(ConfigColorPrefix)) \o BgName, TrueText>>,
     <<Sub(ColorPrefix, 5, Len(ColorPrefix)) \o RedName \o Dash \o Dec(500), LongRed>>,
     <<Sub(VariantPrefix, 5, Len(VariantPrefix)) \o HoverName, One>>,
     <<Sub(BreakpointPrefix, 5, Len(BreakpointPrefix)) \o MdName, One>> >>

\* the same table with the keys the source looks for
LasScenarioTable ==
  << <<ConfigColorPrefix \o BgName, TrueText>>,
     <<ColorPrefix \o RedName \o Dash \o Dec(500), LongRed>>,
     <<VariantPrefix \o HoverName, One>>,
     <<BreakpointPrefix \o MdName, One>> >>

\* tokens a table may or may not hold
GenOptions ==
  << <<ColorPrefix \o RedName, LongRed>>,
     <<ColorPrefix \o RedName \o Dash \o Dec(50), ShadeX>>,
     <<ColorPrefix \o RedName \o Dash \o Dec(300), EmptyFallback>>,
     <<SingleColorPrefix \o RedName \o Dash \o Dec(50), White>>,
     <<VariantPrefix \o HoverName, One>>,
     <<ColorPrefix \o RedName \o Dash \o <<"0">> \o Dec(50), ShadeX2>> >>

GenTables ==
  {SpecScenarioTable, LasScenarioTable} \cup
  { << <<ConfigColorPrefix \o BgName, TrueText>> >>
      \o SelectSeq(GenOptions, LAMBDA e : e \in chosen) :
    chosen \in SUBSET {GenOptions[i] : i \in 1..Len(GenOptions)} }

InitGen ==
  /\ \E t \in GenTables : gen = [pc |-> "call", meta |-> t, out |-> <<>>]
  /\ rv = VarIdle /\ sh = ShadeIdle /\ mx = MixIdle /\ ResolverIdle

Generate ==
  /\ gen.pc = "call"
  /\ gen' = [gen EXCEPT !.pc = "done", !.out = generateClassesWithDetails(gen.meta)]
  /\ UNCHANGED <<rv, sh, mx, resolverVars>>

NextGen == Generate

SpecGen == InitGen /\ [][NextGen]_vars

C8_SpecScenario ==
  (gen.pc = "done" /\ gen.meta = SpecScenarioTable) =>
    LET out == gen.out
        has(seq, x) == \E i \in 1..Len(seq) : seq[i] = x
        plain == BgName \o Dash \o RedName \o Dash \o Dec(500)
        hovered == HoverName \o Colon \o plain
    IN  /\ has(out.classes, plain) /\ has(out.classes, hovered)
        /\ plain \in DOMAIN out.detailMap /\ out.detailMap[plain] = LongRed
        /\ hovered \in DOMAIN out.detailMap /\ out.detailMap[hovered] = LongRed
        /\ \A v \in {HoverName, MdName} \cup {defaultBreakpoints[i] : i \in 1..5} :
             has(out.variants, v)

\* C8, amended: the same results come from the table whose keys carry the
\* las- prefix: { "las-config-color-bg": "true", "las-color-red-500":
\* "#ff0000", "las-variant-hover": "1", "las-breakpoint-md": "1" }.
C8_LasScenario ==
  (gen.pc = "done" /\ gen.meta = LasScenarioTable) =>
    LET out == gen.out
        has(seq, x) == \E i \in 1..Len(seq) : seq[i] = x
        plain == BgName \o Dash \o RedName \o Dash \o Dec(500)
        hovered == HoverName \o Colon \o plain
    IN  /\ has(out.classes, plain) /\ has(out.classes, hovered)
        /\ plain \in DOMAIN out.detailMap /\ out.detailMap[plain] = LongRed
        /\ hovered \in DOMAIN out.detailMap /\ out.detailMap[hovered] = LongRed
        /\ \A v \in {HoverName, MdName} \cup {defaultBreakpoints[i] : i \in 1..5} :
             has(out.variants, v)

\* the prefixed scenario table was generated: 11 plain classes and 6 variants
C8_Witness ==
  /\ gen.pc = "done" /\ gen.meta = LasScenarioTable
  /\ Len(gen.out.variants) = 6 /\ Len(gen.out.classes) = 77

====
